---- MODULE Spec2Model ----
(***************************************************************************)
(* A model of the LangChain RAG notebook (src/langchain.ipynb).            *)
(*                                                                         *)
(* Three parts of the notebook are modelled:                               *)
(*   - the build cells: RecursiveCharacterTextSplitter(...),               *)
(*     split_documents, FAISS.from_documents, as_retriever  (SpecBuild);   *)
(*   - the retriever's nearest-neighbour search            (SpecSearch);   *)
(*   - rag_chain.invoke(query): the runnable sequence                      *)
(*     {context: retriever | format_docs, input: passthrough}              *)
(*       | prompt | llm | to_json_string | StrOutputParser  (Spec).        *)
(*                                                                         *)
(* Texts are sequences of one-character strings.  Library calls are        *)
(* modelled by what the called library code does with the arguments the    *)
(* notebook passes.                                                        *)
(***************************************************************************)
EXTENDS Integers, Sequences, FiniteSets, TLC

VARIABLES
    \* ---- build cells
    cell,           \* the notebook cell about to run
    doc,            \* page_content of the loaded document
    chunk_size,     \* RecursiveCharacterTextSplitter(chunk_size=...)
    chunk_overlap,  \* RecursiveCharacterTextSplitter(chunk_overlap=...)
    top_k,          \* the retriever's k
    splits,         \* splits = text_splitter.split_documents(docs)
    buildErr,       \* the exception a build cell raised, or "none"
    embedCalls,     \* requests the build cells have sent to the Embedder
    index,          \* vectorstore: sequence of [id, text, vec]
    \* ---- one rag_chain.invoke(query)
    state,          \* the step of the chain that is running
    query,          \* the text passed to invoke
    qvec,           \* embed_query(query), or NoVec
    context,        \* documents the retriever returned (sequence of entries)
    ctxText,        \* format_docs(context), or None
    inputVal,       \* the "input" branch (RunnablePassthrough), or None
    promptv,        \* the messages the prompt template produced, <<>> before
    rawDefects,     \* what was wrong with the Generator's reply (a set)
    parsed,         \* <<the ResponseFormatter object>>, or <<>> before there is one
    response,       \* the string invoke returned (JSON tokens), <<>> before
    err,            \* the exception invoke raised, or "none"
    failedAt,       \* the step in which err was raised, or "none"
    pending,        \* a collaborator request in flight: "none", "answering", "silent"
    retries,        \* retries the OpenAI client has made for the current request
    trace,          \* the steps this invocation has entered, in order
    lastFailure     \* what the caller saw of the previous failed invocation

buildVars == <<cell, doc, chunk_size, chunk_overlap, splits, buildErr>>
queryVars == <<state, query, qvec, context, ctxText, inputVal, promptv, rawDefects,
               parsed, response, err, failedAt, pending, retries, trace, lastFailure>>
vars == <<buildVars, top_k, embedCalls, index, queryVars>>

\* Python's None where a text is expected: no text is equal to it.
None == <<"None">>
NoVec == 0 - 1

(***************************************************************************)
(* Bounds of the model.                                                    *)
(***************************************************************************)
MaxDocLen == 4      \* longest document text
MaxChunkSize == 3   \* largest chunk_size tried
MaxK == 2           \* largest k tried in the build cells (0 is tried too)
MaxCoord == 2       \* embedding vectors are the integers 0..MaxCoord
MaxDocs == 5        \* largest number of index entries
PromptBudget == 12  \* a maximum prompt length (the notebook configures none)

Char == {"a", " ", "\n"}
Whitespace == {" ", "\n"}

RECURSIVE SeqsUpTo(_, _)
SeqsUpTo(S, n) ==
    IF n = 0 THEN {<<>>}
    ELSE LET shorter == SeqsUpTo(S, n - 1)
         IN  shorter \cup {Append(s, c) : s \in {t \in shorter : Len(t) = n - 1}, c \in S}

(***************************************************************************)
(* Text helpers: what Python's str methods do on the texts.                *)
(***************************************************************************)
RECURSIVE LStrip(_)
LStrip(t) == IF t # <<>> /\ Head(t) \in Whitespace THEN LStrip(Tail(t)) ELSE t

RECURSIVE RStrip(_)
RStrip(t) ==
    IF t # <<>> /\ t[Len(t)] \in Whitespace THEN RStrip(SubSeq(t, 1, Len(t) - 1)) ELSE t

\* str.strip()
Strip(t) == RStrip(LStrip(t))

RECURSIVE Concat(_)
Concat(ss) == IF ss = <<>> THEN <<>> ELSE Head(ss) \o Concat(Tail(ss))

\* The first position >= i at which sep occurs in t, or 0.
RECURSIVE FindFrom(_, _, _)
FindFrom(t, sep, i) ==
    IF i + Len(sep) - 1 > Len(t) THEN 0
    ELSE IF SubSeq(t, i, i + Len(sep) - 1) = sep THEN i
    ELSE FindFrom(t, sep, i + 1)

\* re.split(sep, t): the pieces between the non-overlapping matches of sep.
RECURSIVE RegexPieces(_, _)
RegexPieces(t, sep) ==
    LET p == FindFrom(t, sep, 1)
    IN  IF p = 0 THEN <<t>>
        ELSE <<SubSeq(t, 1, p - 1)>>
                \o RegexPieces(SubSeq(t, p + Len(sep), Len(t)), sep)

(***************************************************************************)
(* langchain.text_splitter, as called at src/langchain.ipynb:306-308.      *)
(* RecursiveCharacterTextSplitter keeps its defaults: separators           *)
(* ["\n\n", "\n", " ", ""], keep_separator=True, strip_whitespace=True,    *)
(* length_function=len.                                                    *)
(***************************************************************************)
Separators == << <<"\n", "\n">>, <<"\n">>, <<" ">>, <<>> >>

\* _split_text_with_regex(text, separator, keep_separator=True): each
\* separator stays at the start of the piece that follows it; empty pieces
\* are dropped.  The empty separator gives list(text).
SplitTextWithRegex(text, sep) ==
    LET pieces == RegexPieces(text, sep)
        kept   == [i \in 1..Len(pieces) |->
                      IF i = 1 THEN pieces[1] ELSE sep \o pieces[i]]
    IN  IF sep = <<>>
        THEN [i \in 1..Len(text) |-> <<text[i]>>]
        ELSE SelectSeq(kept, LAMBDA s : s # <<>>)

\* TextSplitter._join_docs with separator "": join, strip, None when empty.
JoinDocs(docs) ==
    LET text == Strip(Concat(docs))
    IN  IF text = <<>> THEN None ELSE text

Total(cur) == Len(Concat(cur))

\* The inner while loop of _merge_splits: pop from the front of current_doc.
RECURSIVE PopFront(_, _, _, _)
PopFront(cur, len, cs, ov) ==
    IF Total(cur) > ov \/ (Total(cur) + len > cs /\ Total(cur) > 0)
    THEN PopFront(Tail(cur), len, cs, ov)
    ELSE cur

\* TextSplitter._merge_splits(splits, separator=""), from split number i on.
RECURSIVE MergeLoop(_, _, _, _, _, _)
MergeLoop(sp, i, docs, cur, cs, ov) ==
    IF i > Len(sp)
    THEN LET last == JoinDocs(cur)
         IN  IF last = None THEN docs ELSE Append(docs, last)
    ELSE LET d == sp[i]
         IN  IF Total(cur) + Len(d) > cs /\ Len(cur) > 0
             THEN LET j == JoinDocs(cur)
                      docs2 == IF j = None THEN docs ELSE Append(docs, j)
                      cur2 == PopFront(cur, Len(d), cs, ov)
                  IN  MergeLoop(sp, i + 1, docs2, Append(cur2, d), cs, ov)
             ELSE MergeLoop(sp, i + 1, docs, Append(cur, d), cs, ov)

MergeSplits(sp, cs, ov) == MergeLoop(sp, 1, <<>>, <<>>, cs, ov)

\* The separator _split_text picks: the first that is "" or occurs in text.
RECURSIVE PickSeparator(_, _, _)
PickSeparator(text, seps, i) ==
    IF i >= Len(seps) \/ seps[i] = <<>> THEN i
    ELSE IF FindFrom(text, seps[i], 1) # 0 THEN i
    ELSE PickSeparator(text, seps, i + 1)

\* RecursiveCharacterTextSplitter._split_text(text, separators).
RECURSIVE SplitText(_, _, _, _)
RECURSIVE SplitLoop(_, _, _, _, _, _, _)
SplitLoop(sp, i, good, final, newSeps, cs, ov) ==
    IF i > Len(sp)
    THEN IF good # <<>> THEN final \o MergeSplits(good, cs, ov) ELSE final
    ELSE LET s == sp[i]
         IN  IF Len(s) < cs
             THEN SplitLoop(sp, i + 1, Append(good, s), final, newSeps, cs, ov)
             ELSE LET flushed == IF good # <<>>
                                 THEN final \o MergeSplits(good, cs, ov)
                                 ELSE final
                      deeper == IF newSeps = <<>>
                                THEN <<s>>
                                ELSE SplitText(s, newSeps, cs, ov)
                  IN  SplitLoop(sp, i + 1, <<>>, flushed \o deeper, newSeps, cs, ov)

SplitText(text, seps, cs, ov) ==
    LET p == PickSeparator(text, seps, 1)
        separator == seps[p]
        newSeps == IF separator = <<>> THEN <<>> ELSE SubSeq(seps, p + 1, Len(seps))
    IN  SplitLoop(SplitTextWithRegex(text, separator), 1, <<>>, <<>>, newSeps, cs, ov)

\* TextSplitter.__init__: the only check made on the two sizes.
SplitterRejects(cs, ov) == ov > cs


(***************************************************************************)
(* The external collaborators.  The Embedder is an opaque model: here a    *)
(* fixed function from a text to a vector in 0..MaxCoord.                  *)
(***************************************************************************)
Coords == 0..MaxCoord

CountA(t) == Cardinality({i \in 1..Len(t) : t[i] = "a"})

\* OpenAIEmbeddings(): the vector of a text.
Embed(t) == CountA(t) % (MaxCoord + 1)

\* FAISS.from_documents: one index entry per split, ids in insertion order.
EntriesOf(texts) ==
    [i \in 1..Len(texts) |-> [id |-> i, text |-> texts[i], vec |-> Embed(texts[i])]]

(***************************************************************************)
(* The build cells, in notebook order.                                     *)
(***************************************************************************)
IdleQuery ==
    /\ state = "IDLE" /\ query = <<>> /\ qvec = NoVec /\ context = <<>>
    /\ ctxText = None /\ inputVal = None /\ promptv = <<>> /\ parsed = <<>>
    /\ rawDefects = {}
    /\ response = <<>> /\ err = "none" /\ failedAt = "none" /\ pending = "none"
    /\ retries = 0 /\ trace = <<"IDLE">>
    /\ lastFailure = [err |-> "none", step |-> "none"]

InitBuild ==
    /\ cell = "splitter"
    /\ doc \in SeqsUpTo(Char, MaxDocLen)
    /\ chunk_size \in 1..MaxChunkSize
    /\ chunk_overlap \in 0..(MaxChunkSize + 1)
    /\ top_k \in 0..MaxK
    /\ splits = <<>>
    /\ buildErr = "none"
    /\ embedCalls = 0
    /\ index = <<>>
    /\ IdleQuery

\* text_splitter = RecursiveCharacterTextSplitter(chunk_size, chunk_overlap)
ConstructSplitter ==
    /\ cell = "splitter"
    /\ IF SplitterRejects(chunk_size, chunk_overlap)
       THEN cell' = "error" /\ buildErr' = "ValueError"
       ELSE cell' = "split" /\ buildErr' = buildErr
    /\ UNCHANGED <<doc, chunk_size, chunk_overlap, splits, top_k, embedCalls,
                   index, queryVars>>

\* splits = text_splitter.split_documents(docs)
SplitDocuments ==
    /\ cell = "split"
    /\ splits' = SplitText(doc, Separators, chunk_size, chunk_overlap)
    /\ cell' = "index"
    /\ UNCHANGED <<doc, chunk_size, chunk_overlap, buildErr, top_k, embedCalls,
                   index, queryVars>>

\* vectorstore = FAISS.from_documents(splits, OpenAIEmbeddings()): the splits
\* are embedded in one request; with no splits there is nothing to embed and
\* the index cannot be sized.
FromDocuments ==
    /\ cell = "index"
    /\ IF splits = <<>>
       THEN /\ cell' = "error" /\ buildErr' = "IndexError"
            /\ UNCHANGED <<embedCalls, index>>
       ELSE /\ embedCalls' = embedCalls + 1
            /\ \/ /\ index' = EntriesOf(splits)
                  /\ cell' = "retriever" /\ buildErr' = buildErr
               \/ /\ index' = index
                  /\ cell' = "error" /\ buildErr' = "EmbedderError"
    /\ UNCHANGED <<doc, chunk_size, chunk_overlap, splits, top_k, queryVars>>

\* retriever = vectorstore.as_retriever(): k is stored, not checked.
AsRetriever ==
    /\ cell = "retriever"
    /\ cell' = "built"
    /\ UNCHANGED <<doc, chunk_size, chunk_overlap, splits, buildErr, top_k,
                   embedCalls, index, queryVars>>

NextBuild == ConstructSplitter \/ SplitDocuments \/ FromDocuments \/ AsRetriever

SpecBuild == InitBuild /\ [][NextBuild]_vars

(***************************************************************************)
(* The retriever's search: FAISS IndexFlatL2.search(vector, k) as called   *)
(* by vectorstore.as_retriever() (search_type "similarity").               *)
(***************************************************************************)
\* as_retriever() passes no search_kwargs: similarity_search(k=4).
DefaultK == 4

\* Squared L2 distance, the score of IndexFlatL2.
Distance(u, v) == (u - v) * (u - v)

Min(a, b) == IF a < b THEN a ELSE b

\* How many results a search returns: k, or every entry when there are fewer
\* (the -1 padding is skipped).
ResultLenAll(k, n) == n
ResultLen(k, n) == Min(k, n)

\* The entries of `left` nearest to qv.
Nearest(idx, left, qv) ==
    {i \in left : \A j \in left : Distance(idx[i].vec, qv) <= Distance(idx[j].vec, qv)}

\* The rankings the search can return: nearest first; the order among
\* entries at the same distance is not specified by FAISS.
RECURSIVE Ranked(_, _, _, _)
Ranked(idx, left, qv, n) ==
    IF n = 0 THEN {<<>>}
    ELSE UNION {{<<idx[i]>> \o r : r \in Ranked(idx, left \ {i}, qv, n - 1)} :
                    i \in Nearest(idx, left, qv)}

Search(idx, qv, k) == Ranked(idx, DOMAIN idx, qv, ResultLen(k, Len(idx)))


(***************************************************************************)
(* The prompt: system_prompt, ChatPromptTemplate and format_docs.          *)
(***************************************************************************)
\* The five instruction sentences of system_prompt, abbreviated to one
\* character, and the sentence that follows {context}.
SystemHead == <<"I">>
SystemTail == <<"J">>

\* The "\n\n" of "\n\n".join(...) and of system_prompt.
BlankLine == <<"\n", "\n">>

\* format_docs(docs): "\n\n".join(doc.page_content for doc in docs)
RECURSIVE JoinTexts(_)
JoinTexts(docs) ==
    IF docs = <<>> THEN <<>>
    ELSE IF Len(docs) = 1 THEN docs[1].text
    ELSE docs[1].text \o BlankLine \o JoinTexts(Tail(docs))

FormatDocs(docs) == JoinTexts(docs)

\* A template that tidies the question: the human message gets q.strip().
PromptMessagesStripped(c, q) ==
    << [role |-> "system", content |-> SystemHead \o BlankLine \o c \o SystemTail],
       [role |-> "human", content |-> Strip(q)] >>

\* prompt.invoke({"context": c, "input": q}): the two messages.
PromptMessages(c, q) ==
    << [role |-> "system", content |-> SystemHead \o BlankLine \o c \o SystemTail],
       [role |-> "human", content |-> q] >>

PromptLen(p) == Len(p[1].content) + Len(p[2].content)

(***************************************************************************)
(* The structured output: ResponseFormatter (pydantic v1) and json.        *)
(* A value is [t, v]: t is its JSON type, v its text.                      *)
(***************************************************************************)
Fields == <<"answer", "poem", "followup_question">>
FieldSet == {Fields[i] : i \in 1..Len(Fields)}
ExtraKey == "note"

AbsentV == [t |-> "absent", v |-> ""]
StrV == [t |-> "str", v |-> "text"]
NumV == [t |-> "num", v |-> "42"]
NullV == [t |-> "null", v |-> "null"]

\* The arguments of the tool call the Generator can send back.
RawObjects ==
    {r \in [FieldSet \cup {ExtraKey} -> {AbsentV, StrV, NumV, NullV}] :
        r[ExtraKey] \in {AbsentV, StrV}}

\* pydantic v1 str_validator: a str is kept, an int or float becomes str(v),
\* anything else is refused.
CoerceKeep(x) == x
CoerceToStr(x) == [t |-> "str", v |-> x.v]

FieldAccepts(x) == x.t \in {"str", "num"}

\* ResponseFormatter(**args): every field is required and goes through the
\* str validator; unknown keys are ignored.
Valid(raw) == \A f \in FieldSet : FieldAccepts(raw[f])

Validated(raw) == [f \in FieldSet |-> CoerceToStr(raw[f])]

\* What a reply lacked, against the three-string-fields schema.
Defects(raw) ==
    {d \in {"missing", "number", "null", "extra"} :
        \/ d = "missing" /\ \E f \in FieldSet : raw[f].t = "absent"
        \/ d = "number" /\ \E f \in FieldSet : raw[f].t = "num"
        \/ d = "null" /\ \E f \in FieldSet : raw[f].t = "null"
        \/ d = "extra" /\ raw[ExtraKey].t # "absent"}

\* JSON text is a sequence of tokens.
Punct(c) == [t |-> "punct", v |-> c]

RECURSIVE DumpMembers(_, _)
DumpMembers(obj, i) ==
    IF i > Len(Fields) THEN <<>>
    ELSE (IF i > 1 THEN <<Punct(",")>> ELSE <<>>)
           \o <<[t |-> "str", v |-> Fields[i]], Punct(":"), obj[Fields[i]]>>
           \o DumpMembers(obj, i + 1)

\* json.dumps(d): the members of d in its own order, between braces.
JsonDumps(obj) ==
    <<Punct("{")>> \o DumpMembers(obj, 1) \o <<Punct("}")>>

\* to_json_string(response_formatter): json.dumps(response_formatter.dict())
ToJsonString(obj) == JsonDumps(obj)

\* StrOutputParser: a string comes out as it went in.
StrOutputParser(text) == text

\* json.loads(text) for an object: [ok, keys, val].
RECURSIVE LoadMembers(_, _, _, _)
LoadMembers(toks, i, keys, val) ==
    IF i + 2 > Len(toks) THEN [ok |-> FALSE, keys |-> {}, val |-> <<>>]
    ELSE IF toks[i].t # "str" \/ toks[i + 1] # Punct(":")
              \/ toks[i + 2].t \notin {"str", "num", "null"}
    THEN [ok |-> FALSE, keys |-> {}, val |-> <<>>]
    ELSE LET k == toks[i].v
             keys2 == keys \cup {k}
             val2 == [x \in keys2 |-> IF x = k THEN toks[i + 2] ELSE val[x]]
         IN  IF i + 3 = Len(toks) /\ toks[i + 3] = Punct("}")
             THEN [ok |-> TRUE, keys |-> keys2, val |-> val2]
             ELSE IF i + 3 < Len(toks) /\ toks[i + 3] = Punct(",")
             THEN LoadMembers(toks, i + 4, keys2, val2)
             ELSE [ok |-> FALSE, keys |-> {}, val |-> <<>>]

JsonLoads(toks) ==
    IF Len(toks) < 2 \/ toks[1] # Punct("{") THEN [ok |-> FALSE, keys |-> {}, val |-> <<>>]
    ELSE IF Len(toks) = 2 /\ toks[2] = Punct("}") THEN [ok |-> TRUE, keys |-> {}, val |-> <<>>]
    ELSE LoadMembers(toks, 2, {}, <<>>)


(***************************************************************************)
(* rag_chain.invoke(query).  The chain is a RunnableSequence: a step runs  *)
(* on the output of the step before it, and an exception raised by a step  *)
(* leaves invoke.  Its first step is a RunnableParallel of the "context"   *)
(* branch (retriever | format_docs) and the "input" branch.                *)
(***************************************************************************)
Order == <<"IDLE", "EMBEDDING_QUERY", "RETRIEVING", "ASSEMBLING_PROMPT",
           "GENERATING", "SERIALIZING", "DONE">>

\* Skips prompt assembly: the retriever's output piped straight into llm.
StepAfterSkip(s) ==
    IF s = "RETRIEVING" THEN "GENERATING"
    ELSE Order[(CHOOSE i \in 1..(Len(Order) - 1) : Order[i] = s) + 1]

\* The step that follows s in the chain.
StepAfter(s) == Order[(CHOOSE i \in 1..(Len(Order) - 1) : Order[i] = s) + 1]

\* An exception swallowed: the chain goes on with the next step.
RaisedSwallowed(s) == StepAfter(s)

\* Where an exception raised in step s leaves the invocation.
Raised(s) == "FAILED"

\* ChatOpenAI(...) and OpenAIEmbeddings() pass no max_retries: the OpenAI
\* client retries a failed request twice.  Neither passes a timeout.
max_retries == 2

RetriesAfter(n) == n + 1

\* The failures a collaborator that answers can report.
CollaboratorErrors == {"unavailable", "quota"}

Queries == {<<"a">>, <<" ", "a", "\n">>, <<"a", "a">>}

Enter(s) == state' = s /\ trace' = Append(trace, s)

\* The write-up of one failed step.
Fail(kind) ==
    /\ Enter(Raised(state))
    /\ err' = kind
    /\ failedAt' = state

\* response = rag_chain.invoke(query)
Invoke(q) ==
    /\ cell = "built"
    /\ state \in {"IDLE", "DONE", "FAILED"}
    /\ query' = q
    /\ state' = StepAfter("IDLE")
    /\ trace' = <<"IDLE", StepAfter("IDLE")>>
    /\ qvec' = NoVec /\ context' = <<>> /\ ctxText' = None /\ inputVal' = None
    /\ promptv' = <<>> /\ rawDefects' = {} /\ parsed' = <<>> /\ response' = <<>>
    /\ err' = "none" /\ failedAt' = "none" /\ pending' = "none" /\ retries' = 0
    /\ lastFailure' = IF state = "FAILED" THEN [err |-> err, step |-> failedAt]
                      ELSE lastFailure
    /\ UNCHANGED <<buildVars, top_k, embedCalls, index>>

\* The "input" branch of the RunnableParallel: RunnablePassthrough().
Passthrough ==
    /\ state \in {"EMBEDDING_QUERY", "RETRIEVING", "ASSEMBLING_PROMPT"}
    /\ inputVal = None
    /\ inputVal' = query
    /\ UNCHANGED <<buildVars, top_k, embedCalls, index, state, query, qvec, context,
                   ctxText, promptv, rawDefects, parsed, response, err, failedAt,
                   pending, retries, trace, lastFailure>>

\* The OpenAI client sends a request (the first, or a retry).  The
\* collaborator will answer it, or never does.
SendRequest ==
    /\ state \in {"EMBEDDING_QUERY", "GENERATING"}
    /\ pending = "none"
    /\ pending' \in {"answering", "silent"}
    /\ UNCHANGED <<buildVars, top_k, embedCalls, index, state, query, qvec, context,
                   ctxText, inputVal, promptv, rawDefects, parsed, response, err,
                   failedAt, retries, trace, lastFailure>>

\* A request answered with an error: retried, or raised once the retries
\* are used up.
RequestFails(kind) ==
    /\ state \in {"EMBEDDING_QUERY", "GENERATING"}
    /\ pending = "answering"
    /\ pending' = "none"
    /\ IF retries < max_retries
       THEN /\ retries' = RetriesAfter(retries)
            /\ UNCHANGED <<state, trace, err, failedAt>>
       ELSE /\ Fail(kind)
            /\ retries' = retries
    /\ UNCHANGED <<buildVars, top_k, embedCalls, index, query, qvec, context, ctxText,
                   inputVal, promptv, rawDefects, parsed, response, lastFailure>>

\* retriever, first half: embeddings.embed_query(query) answered.
EmbedQuery ==
    /\ state = "EMBEDDING_QUERY"
    /\ pending = "answering"
    /\ qvec' = Embed(query)
    /\ pending' = "none"
    /\ retries' = 0
    /\ Enter(StepAfter(state))
    /\ UNCHANGED <<buildVars, top_k, embedCalls, index, query, context, ctxText,
                   inputVal, promptv, rawDefects, parsed, response, err, failedAt,
                   lastFailure>>

\* retriever, second half: the index search.
Retrieve ==
    /\ state = "RETRIEVING"
    /\ context' \in Search(index, qvec, top_k)
    /\ Enter(StepAfter(state))
    /\ UNCHANGED <<buildVars, top_k, embedCalls, index, query, qvec, ctxText, inputVal,
                   promptv, rawDefects, parsed, response, err, failedAt, pending,
                   retries, lastFailure>>

\* format_docs, the end of the "context" branch.
FormatContext ==
    /\ state = "ASSEMBLING_PROMPT"
    /\ ctxText = None
    /\ ctxText' = FormatDocs(context)
    /\ UNCHANGED <<buildVars, top_k, embedCalls, index, state, query, qvec, context,
                   inputVal, promptv, rawDefects, parsed, response, err, failedAt,
                   pending, retries, trace, lastFailure>>

\* prompt, once both branches of the RunnableParallel have returned.
AssemblePrompt ==
    /\ state = "ASSEMBLING_PROMPT"
    /\ ctxText # None
    /\ inputVal # None
    /\ promptv' = PromptMessages(ctxText, inputVal)
    /\ Enter(StepAfter(state))
    /\ UNCHANGED <<buildVars, top_k, embedCalls, index, query, qvec, context, ctxText,
                   inputVal, rawDefects, parsed, response, err, failedAt, pending,
                   retries, lastFailure>>

\* llm = chatgpt.with_structured_output(ResponseFormatter): the Generator's
\* reply is parsed into a ResponseFormatter, or the validation error leaves
\* invoke.
Generate(raw) ==
    /\ state = "GENERATING"
    /\ pending = "answering"
    /\ pending' = "none"
    /\ retries' = 0
    /\ rawDefects' = Defects(raw)
    /\ IF Valid(raw)
       THEN /\ parsed' = <<Validated(raw)>>
            /\ Enter(StepAfter(state))
            /\ UNCHANGED <<err, failedAt>>
       ELSE /\ parsed' = parsed
            /\ Fail("validation")
    /\ UNCHANGED <<buildVars, top_k, embedCalls, index, query, qvec, context, ctxText,
                   inputVal, promptv, response, lastFailure>>

\* to_json_string | StrOutputParser(), and invoke returns.
Serialize ==
    /\ state = "SERIALIZING"
    /\ response' = StrOutputParser(ToJsonString(parsed[1]))
    /\ Enter(StepAfter(state))
    /\ UNCHANGED <<buildVars, top_k, embedCalls, index, query, qvec, context, ctxText,
                   inputVal, promptv, rawDefects, parsed, err, failedAt, pending,
                   retries, lastFailure>>

\* The chunk texts of the sample indexes: one or two characters each.
SampleSplits == [i \in 1..MaxDocs |-> [j \in 1..(1 + (i % 2)) |-> "a"]]

Init ==
    /\ cell = "built"
    /\ doc = <<>>
    /\ chunk_size = MaxChunkSize
    /\ chunk_overlap = 0
    /\ top_k = DefaultK
    /\ \E n \in 1..MaxDocs :
          /\ splits = SubSeq(SampleSplits, 1, n)
          /\ index = EntriesOf(SubSeq(SampleSplits, 1, n))
    /\ buildErr = "none"
    /\ embedCalls = 1
    /\ IdleQuery

Next ==
    \/ \E q \in Queries : Invoke(q)
    \/ Passthrough
    \/ SendRequest
    \/ \E kind \in CollaboratorErrors : RequestFails(kind)
    \/ EmbedQuery
    \/ Retrieve
    \/ FormatContext
    \/ AssemblePrompt
    \/ \E raw \in RawObjects : Generate(raw)
    \/ Serialize

Spec == Init /\ [][Next]_vars

\* The chain keeps running while one of its steps can.
SpecFair == Spec /\ WF_vars(Next)


(***************************************************************************)
(* The search on its own: any index of up to MaxDocs entries, any query    *)
(* vector, any k from 1 to the default, at the moment the retriever has    *)
(* the query's vector.                                                     *)
(***************************************************************************)
SearchIndexes ==
    {[i \in 1..n |-> [id |-> i, text |-> <<"a">>, vec |-> v[i]]] :
        n \in 1..MaxDocs, v \in [1..MaxDocs -> Coords]}

InitSearch ==
    /\ cell = "built"
    /\ doc = <<>>
    /\ chunk_size = MaxChunkSize
    /\ chunk_overlap = 0
    /\ top_k \in 1..DefaultK
    /\ index \in SearchIndexes
    /\ splits = [i \in 1..Len(index) |-> index[i].text]
    /\ buildErr = "none"
    /\ embedCalls = 1
    /\ state = "RETRIEVING"
    /\ query = <<"a">>
    /\ qvec \in Coords
    /\ context = <<>> /\ ctxText = None /\ inputVal = None /\ promptv = <<>>
    /\ rawDefects = {} /\ parsed = <<>> /\ response = <<>>
    /\ err = "none" /\ failedAt = "none" /\ pending = "none" /\ retries = 0
    /\ trace = SubSeq(Order, 1, 3)
    /\ lastFailure = [err |-> "none", step |-> "none"]

NextSearch == Retrieve

SpecSearch == InitSearch /\ [][NextSearch]_vars


(***************************************************************************)
(* Properties of the notebook, by number.                                  *)
(***************************************************************************)
Range(f) == {f[i] : i \in DOMAIN f}

Position(s) == CHOOSE i \in 1..Len(Order) : Order[i] = s

Running == {"EMBEDDING_QUERY", "RETRIEVING", "ASSEMBLING_PROMPT", "GENERATING",
            "SERIALIZING"}

\* C1: the steps of a query run in the order IDLE, EMBEDDING_QUERY,
\* RETRIEVING, ASSEMBLING_PROMPT, GENERATING, SERIALIZING, DONE: the steps
\* entered so far are a prefix of that order, followed at most by the
\* terminal FAILED, and a step is only entered once the step before it has
\* produced its output.
C1_StepsInOrder ==
    /\ state = trace[Len(trace)]
    /\ \E n \in 1..Len(Order) :
          \/ trace = SubSeq(Order, 1, n)
          \/ /\ 2 <= n /\ n < Len(Order)
             /\ trace = Append(SubSeq(Order, 1, n), "FAILED")
    /\ "RETRIEVING" \in Range(trace) => qvec # NoVec
    /\ "ASSEMBLING_PROMPT" \in Range(trace) => context # <<>>
    /\ "GENERATING" \in Range(trace) => promptv # <<>>
    /\ "SERIALIZING" \in Range(trace) => parsed # <<>>
    /\ "DONE" \in Range(trace) => response # <<>>

C1_Witness == state = "DONE" /\ trace = Order /\ response # <<>>

\* C2: once a step has failed, the query is in FAILED, no step after the
\* failing one has been entered or has produced anything, and no response
\* has been returned.
C2_FailureAborts ==
    err # "none" =>
        /\ state = "FAILED"
        /\ failedAt \in Running
        /\ trace = Append(SubSeq(Order, 1, Position(failedAt)), "FAILED")
        /\ response = <<>>
        /\ parsed = <<>>
        /\ failedAt = "EMBEDDING_QUERY" =>
              qvec = NoVec /\ context = <<>> /\ ctxText = None /\ promptv = <<>>

C2_Witness ==
    /\ state = "FAILED" /\ failedAt = "GENERATING" /\ err = "unavailable"
    /\ promptv # <<>> /\ response = <<>>

\* C3: the string a successful query returns parses as a JSON object whose
\* keys are exactly answer, poem and followup_question, each with a string
\* value.
C3_ThreeStringKeys ==
    state = "DONE" =>
        LET r == JsonLoads(response)
        IN  /\ r.ok
            /\ r.keys = FieldSet
            /\ Len(response) = 4 * Len(Fields) + 1
            /\ \A k \in r.keys : r.val[k].t = "str"

C3_Witness == state = "DONE" /\ rawDefects = {"number", "extra"}

\* C4: a Generator reply that lacks one of the three fields, or has a
\* non-string value for one, fails the query with a validation error and
\* never reaches serialization.
C4_MalformedRejected ==
    rawDefects \cap {"missing", "number", "null"} # {} =>
        /\ state = "FAILED"
        /\ err = "validation"
        /\ "SERIALIZING" \notin Range(trace)

\* C5: the error a failed query hands to its caller identifies the step in
\* which the failure originated: two failed queries that hand over the same
\* error failed in the same step.
C5_ErrorNamesStep ==
    (state = "FAILED" /\ lastFailure.err = err) => lastFailure.step = failedAt

\* C6: the assembled prompt is never longer than the configured maximum
\* prompt length.
C6_PromptWithinBudget == promptv # <<>> => PromptLen(promptv) <= PromptBudget

\* C7: the retrieved context has at most k chunks, is ordered by
\* non-increasing similarity to the query (non-decreasing distance), and
\* holds no chunk identifier twice.
C7_RankedTopK ==
    "ASSEMBLING_PROMPT" \in Range(trace) =>
        /\ Len(context) <= top_k
        /\ \A i \in 1..Len(context) : context[i] \in Range(index)
        /\ \A i, j \in 1..Len(context) :
              i < j => /\ Distance(context[i].vec, qvec) <= Distance(context[j].vec, qvec)
                       /\ context[i].id # context[j].id

C7_Witness ==
    /\ state = "ASSEMBLING_PROMPT"
    /\ top_k = DefaultK
    /\ Len(index) > top_k
    /\ Len(context) = top_k
    /\ Distance(context[1].vec, qvec) < Distance(context[top_k].vec, qvec)

\* C8: under an invalid configuration (chunk overlap >= chunk size, or
\* k = 0) no request is ever sent to a collaborator.
C8_InvalidConfigRejected ==
    (chunk_overlap >= chunk_size \/ top_k = 0) => (embedCalls = 0 /\ cell # "built")

RECURSIVE Reconstruct(_, _)
Reconstruct(chunks, ov) ==
    IF chunks = <<>> THEN <<>>
    ELSE IF Len(chunks) = 1 THEN chunks[1]
    ELSE LET front == SubSeq(chunks, 1, Len(chunks) - 1)
             last == chunks[Len(chunks)]
         IN  Reconstruct(front, ov) \o SubSeq(last, ov + 1, Len(last))

\* C9: with 0 <= overlap < chunk_size, every chunk is at most chunk_size
\* long, and the chunks in order, each after the first without its first
\* `overlap` characters, give back the document text.
C9_SplitReconstructs ==
    (cell \in {"index", "retriever", "built"} /\ chunk_overlap < chunk_size) =>
        /\ \A i \in 1..Len(splits) : Len(splits[i]) <= chunk_size
        /\ Reconstruct(splits, chunk_overlap) = doc

\* C10: every query that has started ends in DONE or FAILED.
C10_QueryEnds == (state \in Running) ~> (state \in {"DONE", "FAILED"})

\* The texts of `texts`, in their order, with `sep` between neighbours.
Interleave(texts, sep) ==
    Concat([i \in 1..(2 * Len(texts) - 1) |->
               IF i % 2 = 1 THEN texts[(i + 1) \div 2] ELSE sep])

\* C11: the assembled prompt is two messages, system then human; the system
\* message is the fixed instructions around a context block that is the
\* texts of the retrieved chunks, in ranked order, joined by a blank line;
\* the human message is the query text exactly as it was passed to invoke,
\* which is also the text the retriever searched with.
C11_PromptShape ==
    promptv # <<>> =>
        /\ Len(promptv) = 2
        /\ promptv[1].role = "system"
        /\ promptv[2].role = "human"
        /\ promptv[1].content =
              SystemHead \o BlankLine
                \o Interleave([i \in 1..Len(context) |-> context[i].text], BlankLine)
                \o SystemTail
        /\ promptv[2].content = query
        /\ qvec = Embed(promptv[2].content)

C11_Witness ==
    /\ state = "GENERATING"
    /\ query = <<" ", "a", "\n">>
    /\ promptv[2].content = query
    /\ Len(context) = DefaultK
    /\ context[1].text # context[DefaultK].text

====
